---- MODULE Spec2Model ----
(***************************************************************************)
(* Waterlogging Route Checker (src/src/App.jsx): the App component's state, *)
(* the asynchronous handler handleCheckRoute cut at its suspension points,  *)
(* the two effects that own the map, and the pure helpers riskLevel and     *)
(* sampleLineString.                                                        *)
(*                                                                          *)
(* Rainfall is kept in tenths of a millimetre (the resolution the status    *)
(* line prints with toFixed(1)), so the thresholds 10 mm and 5 mm of        *)
(* riskLevel read 100 and 50.                                               *)
(***************************************************************************)
EXTENDS Integers, Sequences, FiniteSets, TLC

VARIABLES
  originAddr,         \* useState("")      App.jsx:8
  destAddr,           \* useState("")      App.jsx:9
  origin,             \* useState(null)    App.jsx:10
  dest,               \* useState(null)    App.jsx:11
  mapReady,           \* useState(false)   App.jsx:12 (mapRef.current is set in the same block)
  status,             \* useState("")      App.jsx:13
  routeGeo,           \* useState(null)    App.jsx:14
  checking,           \* useState(false)   App.jsx:15
  routeLayerRef,      \* useRef(null)      App.jsx:17
  samplesMarkersRef,  \* useRef([])        App.jsx:18
  mapMarkers,         \* the circle markers currently on the Leaflet map
  effectDue,          \* the [routeGeo, mapReady] effect has a changed dependency
  effectCallbacks,    \* pending import("leaflet").then callbacks of that effect
  inv,                \* the invocations of handleCheckRoute, by run number
  nRuns,              \* number of invocations started
  nEvents,            \* number of map clicks and address edits so far
  sampleIn, sampleOut,    \* argument and result of a sampleLineString call
  classIn, classOut,      \* arguments and result of a riskLevel call
  aggIn, aggOut           \* per-sample results in two visiting orders, and the accumulators

vars == <<originAddr, destAddr, origin, dest, mapReady, status, routeGeo,
          checking, routeLayerRef, samplesMarkersRef, mapMarkers, effectDue,
          effectCallbacks, inv, nRuns, nEvents, sampleIn, sampleOut,
          classIn, classOut, aggIn, aggOut>>

appVars == <<originAddr, destAddr, origin, dest, mapReady, status, routeGeo,
             checking, routeLayerRef, samplesMarkersRef, mapMarkers, effectDue,
             effectCallbacks, inv, nRuns, nEvents>>

uiVars == <<originAddr, destAddr, origin, dest>>

fnVars == <<sampleIn, sampleOut, classIn, classOut, aggIn, aggOut>>

-----------------------------------------------------------------------------
(* Bounds *)

MaxRuns == 2

MaxEvents == 2

MaxPathLen == 34

MaxRain == 120

MaxSamples == 3

(* Program constants *)

Stride == 10

-----------------------------------------------------------------------------
(* Values *)

\* JavaScript null for a coordinate ({lat, lon} object or null)
Null == [null |-> TRUE]

LatLon(lat, lon) == [lat |-> lat, lon |-> lon]

\* points a map click can deliver (e.latlng)
ClickCoords == {LatLon(1, 2), LatLon(3, 4)}

\* where a click can land when the endpoint it sets holds pin: the program only
\* stores, prints and forwards e.latlng, so the first pin is one fixed place and
\* a later click lands on a place other than the current pin
ClickTargets(pin) ==
  IF pin \in ClickCoords THEN ClickCoords \ {pin} ELSE {CHOOSE c \in ClickCoords : c.lat = 1}

\* typed address text
Texts == {"a"}

\* `Lat ${lat.toFixed(5)}, Lon ${lon.toFixed(5)}`  (App.jsx:38, 43)
FormatLatLon(lat, lon) == <<"Lat", lat, "Lon", lon>>

Typed(t) == <<"text", t>>

\* a path of n distinct vertices [lon, lat], starting at offset s
MkPath(n, s) == [k \in 1..n |-> <<s + k, 100 + s + k>>]

GeoJSON(coords) == [coordinates |-> coords]

NoGeometry == GeoJSON(<<>>)

NoRouteGeo == [run |-> 0, geometry |-> NoGeometry]

NoLayer == [run |-> 0, latlngs |-> <<>>]

RunIds == 1..MaxRuns

-----------------------------------------------------------------------------
(* Pure helpers *)

riskLevelStrictMedium(water, rain) ==
  IF water /\ rain > 100 THEN "High"
  ELSE IF water /\ rain > 50 THEN "Medium"
  ELSE "Low"

\* App.jsx:138-142
riskLevel(water, rain) ==
  IF water /\ rain > 100 THEN "High"
  ELSE IF water \/ rain > 50 THEN "Medium"
  ELSE "Low"

RECURSIVE sampleLoop(_, _)
\* the for loop of App.jsx:102-103, i is the 0-based index
sampleLoop(coords, i) ==
  IF i < Len(coords)
  THEN <<[lon |-> coords[i + 1][1], lat |-> coords[i + 1][2]]>>
         \o sampleLoop(coords, i + Stride)
  ELSE <<>>

sampleLineStringFromOne(geojson) == sampleLoop(geojson.coordinates, 1)

\* App.jsx:99-105
sampleLineString(geojson) == sampleLoop(geojson.coordinates, 0)

MaxLatest(a, b) == b

\* Math.max(maxRain, rain)   App.jsx:176
Max(a, b) == IF a >= b THEN a ELSE b

WaterSoFarLatest(waterDetected, hasWater) == hasWater

\* if (hasWater) { waterDetected = true; ... }   App.jsx:171-172
WaterSoFar(waterDetected, hasWater) == IF hasWater THEN TRUE ELSE waterDetected

\* maxRain = Math.max(maxRain, rain)   App.jsx:176
RainSoFar(maxRain, rain) == Max(maxRain, rain)

\* Number.prototype.toFixed(1) of a value held in tenths: whole part and decimal
toFixed1(x) == <<x \div 10, x % 10>>

-----------------------------------------------------------------------------
(* Provider responses and the functions that consume them *)

Throw(msg) == [threw |-> TRUE, msg |-> msg, value |-> Null]

Return(v) == [threw |-> FALSE, msg |-> "", value |-> v]

\* a decimal string as the geocoder sends it, and parseFloat of it
Str(n) == <<"str", n>>

parseFloat(s) == s[2]

Candidate(lat, lon) == [lat |-> Str(lat), lon |-> Str(lon)]

\* what fetch + res.json() of the geocoding query can deliver
GeoResponses ==
  { [net |-> "reject", body |-> "", data |-> <<>>],
    [net |-> "ok", body |-> "unparsable", data |-> <<>>],
    [net |-> "ok", body |-> "null", data |-> <<>>],
    [net |-> "ok", body |-> "array", data |-> <<>>],
    [net |-> "ok", body |-> "array", data |-> <<Candidate(5, 6)>>],
    [net |-> "ok", body |-> "array", data |-> <<Candidate(5, 6), Candidate(7, 8)>>] }

\* App.jsx:69-76
geocode(resp) ==
  IF resp.net = "reject" THEN Throw("Failed to fetch")
  ELSE IF resp.body = "unparsable" THEN Throw("Unexpected token")
  ELSE IF resp.body = "null" \/ Len(resp.data) = 0 THEN Return(Null)
  ELSE Return(LatLon(parseFloat(resp.data[1].lat), parseFloat(resp.data[1].lon)))

ShortRoute == GeoJSON(MkPath(3, 0))

LongRoute == GeoJSON(MkPath(Stride + 1, 0))

\* what fetch + res.json() of the routing query can deliver
RouteResponses ==
  { [net |-> "reject", body |-> "", code |-> "", routes |-> <<>>],
    [net |-> "ok", body |-> "unparsable", code |-> "", routes |-> <<>>],
    [net |-> "ok", body |-> "object", code |-> "NoRoute", routes |-> <<>>],
    [net |-> "ok", body |-> "object", code |-> "Ok",
     routes |-> <<[geometry |-> ShortRoute]>>],
    [net |-> "ok", body |-> "object", code |-> "Ok",
     routes |-> <<[geometry |-> LongRoute], [geometry |-> ShortRoute]>>] }

\* App.jsx:78-84
getRoute(resp) ==
  IF resp.net = "reject" THEN Throw("Failed to fetch")
  ELSE IF resp.body = "unparsable" THEN Throw("Unexpected token")
  ELSE IF resp.code # "Ok" THEN Throw("No route found")
  ELSE Return(resp.routes[1].geometry)

\* what fetch + res.json() of the Overpass query can deliver
WaterResponses ==
  { [net |-> "reject", ok |-> FALSE, body |-> "", elements |-> <<>>],
    [net |-> "ok", ok |-> FALSE, body |-> "", elements |-> <<>>],
    [net |-> "ok", ok |-> TRUE, body |-> "unparsable", elements |-> <<>>],
    [net |-> "ok", ok |-> TRUE, body |-> "noElements", elements |-> <<>>],
    [net |-> "ok", ok |-> TRUE, body |-> "object", elements |-> <<>>],
    [net |-> "ok", ok |-> TRUE, body |-> "object", elements |-> <<"way">>] }

\* App.jsx:107-123; a missing elements key yields undefined, which the caller
\* tests for truthiness only: FALSE
checkWaterAroundPoint(resp) ==
  IF resp.net = "reject" THEN Throw("Failed to fetch")
  ELSE IF ~resp.ok THEN Return(FALSE)
  ELSE IF resp.body = "unparsable" THEN Throw("Unexpected token")
  ELSE IF resp.body = "noElements" THEN Return(FALSE)
  ELSE Return(Len(resp.elements) > 0)

\* hourly.precipitation series, in tenths of a millimetre
RainSeries == { <<0, 0, 0>>, <<90, 50, 40, 25>> }

\* what fetch + res.json() of the Open-Meteo query can deliver
RainResponses ==
  { [net |-> "reject", body |-> "", precipitation |-> <<>>],
    [net |-> "ok", body |-> "unparsable", precipitation |-> <<>>],
    [net |-> "ok", body |-> "noHourly", precipitation |-> <<>>],
    [net |-> "ok", body |-> "noPrecipitation", precipitation |-> <<>>] }
  \cup { [net |-> "ok", body |-> "object", precipitation |-> s] : s \in RainSeries }

\* Array.prototype.slice(-3)
sliceLast3(s) == IF Len(s) <= 3 THEN s ELSE SubSeq(s, Len(s) - 2, Len(s))

RECURSIVE reduceSum(_, _)
\* prec.reduce((a, b) => a + b, 0)
reduceSum(s, acc) == IF s = <<>> THEN acc ELSE reduceSum(Tail(s), acc + Head(s))

\* App.jsx:125-136: every failure is caught and yields 0
fetchPrecipitationLastHours(resp) ==
  IF resp.net = "reject" THEN 0
  ELSE IF resp.body = "unparsable" THEN 0
  ELSE IF resp.body = "noHourly" THEN 0
  ELSE IF resp.body = "noPrecipitation" THEN 0
  ELSE reduceSum(sliceLast3(resp.precipitation), 0)

\* a per-sample check that could not be completed (spec 4.4, 4.5)
WaterCheckFailed(resp) ==
  resp.net = "reject" \/ ~resp.ok \/ resp.body \in {"unparsable", "noElements"}

RainCheckFailed(resp) == resp.net = "reject" \/ resp.body # "object"

-----------------------------------------------------------------------------
(* Status line *)

StatusText(text) == [text |-> text, risk |-> "", water |-> "", rain |-> <<0, 0>>, msg |-> ""]

\* `Risk Level: ${risk}. Mapped water: ${...}, Rain (last 3h): ${maxRain.toFixed(1)} mm`
RiskStatus(risk, waterDetected, maxRain) ==
  [text |-> "Risk Level", risk |-> risk,
   water |-> IF waterDetected THEN "Yes" ELSE "No",
   rain |-> toFixed1(maxRain), msg |-> ""]

\* "Error: " + e.message
ErrorStatus(msg) == [text |-> "Error", risk |-> "", water |-> "", rain |-> <<0, 0>>, msg |-> msg]

\* the RunState of spec section 3, read off the status line and the in-flight flag
RunState ==
  CASE status.text = "" /\ ~checking -> "Idle"
    [] status.text = "" /\ checking -> "ResolvingLocations"
    [] status.text = "Getting route..." -> "FetchingRoute"
    [] status.text = "Checking water and rainfall..." -> "Sampling"
    [] status.text = "Risk Level" -> "Done"
    [] status.text = "Error" -> "Error"

-----------------------------------------------------------------------------
(* Invocations of handleCheckRoute *)

\* the locals of one invocation; origin, dest, originAddr and destAddr are the
\* values of the render whose closure the click handler belongs to; calls is the
\* record of the provider requests it issued, allFailed whether every per-sample
\* check that settled so far had failed
IdleFrame ==
  [pc |-> "idle", origin |-> Null, dest |-> Null, originAddr |-> Typed(""),
   destAddr |-> Typed(""), from |-> Null, to |-> Null, geometry |-> NoGeometry,
   samples |-> <<>>, map |-> FALSE, i |-> 0, waterDetected |-> FALSE,
   maxRain |-> 0, calls |-> <<>>, allFailed |-> TRUE]

\* one request to an external provider, as issued
Call(fn, idx, arg) ==
  [fn |-> fn, idx |-> idx, arg |-> arg, state |-> "pending", water |-> FALSE, rain |-> 0]

Issue(f, fn, idx, arg) == [f EXCEPT !.calls = Append(@, Call(fn, idx, arg))]

\* the pending request of frame f completes
Complete(f, state, water, rain) ==
  [f EXCEPT !.calls[Len(f.calls)] = [@ EXCEPT !.state = state, !.water = water, !.rain = rain]]

Active(r) == inv[r].pc \notin {"idle", "returned"}

NumActive == Cardinality({r \in RunIds : Active(r)})

\* no invocation stands between two statements of a synchronous stretch of
\* App.jsx:146-154: a handler runs to its next await before any other
\* callback, event handler or effect can run
Quiescent ==
  \A r \in RunIds : inv[r].pc \notin {"resolveFrom", "resolveTo", "checkLocations"}

ButtonAlwaysEnabled == TRUE

\* <button onClick={handleCheckRoute} disabled={checking}>  App.jsx:209
ButtonEnabled == ~checking

CatchKeepStatus(r, f, msg) ==
  /\ status' = status
  /\ checking' = FALSE
  /\ inv' = [inv EXCEPT ![r] = [f EXCEPT !.pc = "returned"]]

\* catch (e) { setStatus("Error: " + e.message) } finally { setChecking(false) }
\* App.jsx:185-189
Catch(r, f, msg) ==
  /\ status' = ErrorStatus(msg)
  /\ checking' = FALSE
  /\ inv' = [inv EXCEPT ![r] = [f EXCEPT !.pc = "returned"]]

PublishNoFinally(r, f) ==
  /\ status' = RiskStatus(riskLevel(f.waterDetected, f.maxRain), f.waterDetected, f.maxRain)
  /\ checking' = checking
  /\ inv' = [inv EXCEPT ![r] = [f EXCEPT !.pc = "returned"]]

\* App.jsx:181-184 and the finally block
Publish(r, f) ==
  /\ status' = RiskStatus(riskLevel(f.waterDetected, f.maxRain), f.waterDetected, f.maxRain)
  /\ checking' = FALSE
  /\ inv' = [inv EXCEPT ![r] = [f EXCEPT !.pc = "returned"]]

\* samplesMarkersRef.current.forEach((m) => m.remove())
RemoveAll(markers, ids) == {m \in markers : \A k \in 1..Len(ids) : ids[k] # m.id}

\* marker.setStyle({ color })
SetStyle(markers, id, color) ==
  {IF m.id = id THEN [m EXCEPT !.color = color] ELSE m : m \in markers}

LoopFromBackwards(r, f, markers, list) ==
  IF f.i >= Len(f.samples)
  THEN /\ Publish(r, f)
       /\ mapMarkers' = markers
       /\ samplesMarkersRef' = list
  ELSE IF ~f.map
  THEN /\ Catch(r, f, "Cannot read properties of null")
       /\ mapMarkers' = markers
       /\ samplesMarkersRef' = list
  ELSE LET k == f.i + 1
           p == f.samples[Len(f.samples) - f.i]
       IN /\ mapMarkers' = markers \cup {[id |-> <<r, k>>, color |-> "default"]}
          /\ samplesMarkersRef' = Append(list, <<r, k>>)
          /\ inv' = [inv EXCEPT ![r] = [Issue(f, "water", k, p) EXCEPT !.pc = "water"]]
          /\ UNCHANGED <<status, checking>>

\* the loop of App.jsx:167-179 from the top of iteration f.i + 1 to its first
\* await, or past the loop to the end of the handler; markers and list are the
\* map's markers and samplesMarkersRef.current as the caller leaves them
LoopFrom(r, f, markers, list) ==
  IF f.i >= Len(f.samples)
  THEN /\ Publish(r, f)
       /\ mapMarkers' = markers
       /\ samplesMarkersRef' = list
  ELSE IF ~f.map
  THEN \* L.circleMarker(...).addTo(null) throws a TypeError
       /\ Catch(r, f, "Cannot read properties of null")
       /\ mapMarkers' = markers
       /\ samplesMarkersRef' = list
  ELSE LET k == f.i + 1
           p == f.samples[k]
       IN /\ mapMarkers' = markers \cup {[id |-> <<r, k>>, color |-> "default"]}
          /\ samplesMarkersRef' = Append(list, <<r, k>>)
          /\ inv' = [inv EXCEPT ![r] = [Issue(f, "water", k, p) EXCEPT !.pc = "water"]]
          /\ UNCHANGED <<status, checking>>

\* App.jsx:144-148: the click on Check Route up to line 149
StartRun(r) ==
  /\ Quiescent
  /\ ButtonEnabled
  /\ nRuns < MaxRuns
  /\ r = nRuns + 1
  /\ nRuns' = r
  /\ status' = StatusText("")
  /\ checking' = TRUE
  /\ inv' = [q \in RunIds |->
              IF q = r
              THEN [IdleFrame EXCEPT !.pc = "resolveFrom", !.origin = origin, !.dest = dest,
                                     !.originAddr = originAddr, !.destAddr = destAddr]
              ELSE IF inv[q].pc = "returned" THEN [IdleFrame EXCEPT !.pc = "returned"]
              ELSE inv[q]]
  /\ UNCHANGED <<uiVars, mapReady, routeGeo, routeLayerRef, samplesMarkersRef,
                 mapMarkers, effectDue, effectCallbacks, nEvents, fnVars>>

frameUnchanged == <<uiVars, mapReady, status, checking, routeGeo, routeLayerRef,
                    samplesMarkersRef, mapMarkers, effectDue, effectCallbacks,
                    nRuns, nEvents, fnVars>>

ResolveFromAlwaysGeocode(r) ==
  /\ inv[r].pc = "resolveFrom"
  /\ inv' = [inv EXCEPT ![r] =
              [Issue(inv[r], "geocode", 1, inv[r].originAddr) EXCEPT !.pc = "geoFrom"]]
  /\ UNCHANGED frameUnchanged

\* App.jsx:149: origin || (await geocode(originAddr)), up to the await
ResolveFrom(r) ==
  /\ inv[r].pc = "resolveFrom"
  /\ IF inv[r].origin # Null
     THEN inv' = [inv EXCEPT ![r] = [@ EXCEPT !.from = inv[r].origin, !.pc = "resolveTo"]]
     ELSE inv' = [inv EXCEPT ![r] =
                   [Issue(@, "geocode", 1, inv[r].originAddr) EXCEPT !.pc = "geoFrom"]]
  /\ UNCHANGED frameUnchanged

GeocodeFromReturnRetry(r, resp) ==
  /\ inv[r].pc = "geoFrom"
  /\ LET out == geocode(resp)
     IN IF out.threw /\ Len(inv[r].calls) < 2
        THEN /\ inv' = [inv EXCEPT ![r] =
                         Issue(Complete(@, "threw", FALSE, 0), "geocode", 1, inv[r].originAddr)]
             /\ UNCHANGED <<status, checking>>
        ELSE IF out.threw
        THEN Catch(r, Complete(inv[r], "threw", FALSE, 0), out.msg)
        ELSE /\ inv' = [inv EXCEPT ![r] =
                         [Complete(@, "returned", FALSE, 0)
                            EXCEPT !.from = out.value, !.pc = "resolveTo"]]
             /\ UNCHANGED <<status, checking>>
  /\ UNCHANGED <<uiVars, mapReady, routeGeo, routeLayerRef, samplesMarkersRef,
                 mapMarkers, effectDue, effectCallbacks, nRuns, nEvents, fnVars>>

\* App.jsx:149: geocode(originAddr) settles
GeocodeFromReturn(r, resp) ==
  /\ inv[r].pc = "geoFrom"
  /\ LET out == geocode(resp)
     IN IF out.threw
        THEN Catch(r, Complete(inv[r], "threw", FALSE, 0), out.msg)
        ELSE /\ inv' = [inv EXCEPT ![r] =
                         [Complete(@, "returned", FALSE, 0)
                            EXCEPT !.from = out.value, !.pc = "resolveTo"]]
             /\ UNCHANGED <<status, checking>>
  /\ UNCHANGED <<uiVars, mapReady, routeGeo, routeLayerRef, samplesMarkersRef,
                 mapMarkers, effectDue, effectCallbacks, nRuns, nEvents, fnVars>>

ResolveToLatestDest(r) ==
  /\ inv[r].pc = "resolveTo"
  /\ IF dest # Null
     THEN inv' = [inv EXCEPT ![r] = [@ EXCEPT !.to = dest, !.pc = "checkLocations"]]
     ELSE inv' = [inv EXCEPT ![r] =
                   [Issue(@, "geocode", 2, destAddr) EXCEPT !.pc = "geoTo"]]
  /\ UNCHANGED frameUnchanged

\* App.jsx:150: dest || (await geocode(destAddr)), up to the await
ResolveTo(r) ==
  /\ inv[r].pc = "resolveTo"
  /\ IF inv[r].dest # Null
     THEN inv' = [inv EXCEPT ![r] = [@ EXCEPT !.to = inv[r].dest, !.pc = "checkLocations"]]
     ELSE inv' = [inv EXCEPT ![r] =
                   [Issue(@, "geocode", 2, inv[r].destAddr) EXCEPT !.pc = "geoTo"]]
  /\ UNCHANGED frameUnchanged

\* App.jsx:150: geocode(destAddr) settles
GeocodeToReturn(r, resp) ==
  /\ inv[r].pc = "geoTo"
  /\ LET out == geocode(resp)
     IN IF out.threw
        THEN Catch(r, Complete(inv[r], "threw", FALSE, 0), out.msg)
        ELSE /\ inv' = [inv EXCEPT ![r] =
                         [Complete(@, "returned", FALSE, 0)
                            EXCEPT !.to = out.value, !.pc = "checkLocations"]]
             /\ UNCHANGED <<status, checking>>
  /\ UNCHANGED <<uiVars, mapReady, routeGeo, routeLayerRef, samplesMarkersRef,
                 mapMarkers, effectDue, effectCallbacks, nRuns, nEvents, fnVars>>

CheckLocationsOriginOnly(r) ==
  /\ inv[r].pc = "checkLocations"
  /\ IF inv[r].from = Null
     THEN Catch(r, inv[r], "Invalid locations")
     ELSE /\ status' = StatusText("Getting route...")
          /\ inv' = [inv EXCEPT ![r] =
                      [Issue(@, "route", 1, <<inv[r].from, inv[r].to>>) EXCEPT !.pc = "route"]]
          /\ UNCHANGED checking
  /\ UNCHANGED <<uiVars, mapReady, routeGeo, routeLayerRef, samplesMarkersRef,
                 mapMarkers, effectDue, effectCallbacks, nRuns, nEvents, fnVars>>

\* App.jsx:151-154: the location test, "Getting route...", and the call of getRoute
CheckLocations(r) ==
  /\ inv[r].pc = "checkLocations"
  /\ IF inv[r].from = Null \/ inv[r].to = Null
     THEN Catch(r, inv[r], "Invalid locations")
     ELSE /\ status' = StatusText("Getting route...")
          /\ inv' = [inv EXCEPT ![r] =
                      [Issue(@, "route", 1, <<inv[r].from, inv[r].to>>) EXCEPT !.pc = "route"]]
          /\ UNCHANGED checking
  /\ UNCHANGED <<uiVars, mapReady, routeGeo, routeLayerRef, samplesMarkersRef,
                 mapMarkers, effectDue, effectCallbacks, nRuns, nEvents, fnVars>>

\* App.jsx:154-159: getRoute settles; setRouteGeo, "Checking water and rainfall...",
\* sampleLineString, up to the await of import("leaflet")
GetRouteReturn(r, resp) ==
  /\ inv[r].pc = "route"
  /\ LET out == getRoute(resp)
     IN IF out.threw
        THEN /\ Catch(r, Complete(inv[r], "threw", FALSE, 0), out.msg)
             /\ UNCHANGED <<routeGeo, effectDue>>
        ELSE /\ routeGeo' = [run |-> r, geometry |-> out.value]
             /\ effectDue' = TRUE
             /\ status' = StatusText("Checking water and rainfall...")
             /\ inv' = [inv EXCEPT ![r] =
                         [Complete(@, "returned", FALSE, 0)
                            EXCEPT !.geometry = out.value,
                                   !.samples = sampleLineString(out.value),
                                   !.pc = "leaflet"]]
             /\ UNCHANGED checking
  /\ UNCHANGED <<uiVars, mapReady, routeLayerRef, samplesMarkersRef, mapMarkers,
                 effectCallbacks, nRuns, nEvents, fnVars>>

\* App.jsx:159-170: import("leaflet") settles; the old markers are removed, the
\* accumulators initialised and the loop entered
LeafletReturn(r) ==
  /\ inv[r].pc = "leaflet"
  /\ LoopFrom(r, [inv[r] EXCEPT !.map = mapReady, !.waterDetected = FALSE, !.maxRain = 0],
              RemoveAll(mapMarkers, samplesMarkersRef), <<>>)
  /\ UNCHANGED <<uiVars, mapReady, routeGeo, routeLayerRef, effectDue,
                 effectCallbacks, nRuns, nEvents, fnVars>>

\* App.jsx:170-175: checkWaterAroundPoint settles, up to the await of the rain check
WaterReturn(r, resp) ==
  /\ inv[r].pc = "water"
  /\ LET out == checkWaterAroundPoint(resp)
         k == inv[r].i + 1
     IN IF out.threw
        THEN /\ Catch(r, Complete(inv[r], "threw", FALSE, 0), out.msg)
             /\ UNCHANGED mapMarkers
        ELSE /\ inv' = [inv EXCEPT ![r] =
                         [Issue(Complete(@, "returned", out.value, 0),
                                "rain", k, inv[r].samples[k])
                            EXCEPT !.waterDetected = WaterSoFar(@, out.value),
                                   !.allFailed = @ /\ WaterCheckFailed(resp),
                                   !.pc = "rain"]]
             /\ mapMarkers' = IF out.value THEN SetStyle(mapMarkers, <<r, k>>, "#1e88e5")
                              ELSE mapMarkers
             /\ UNCHANGED <<status, checking>>
  /\ UNCHANGED <<uiVars, mapReady, routeGeo, routeLayerRef, samplesMarkersRef,
                 effectDue, effectCallbacks, nRuns, nEvents, fnVars>>

\* App.jsx:175-179 and on: fetchPrecipitationLastHours settles, the marker is
\* restyled, and the loop goes round or the result is published
RainReturn(r, resp) ==
  /\ inv[r].pc = "rain"
  /\ LET rain == fetchPrecipitationLastHours(resp)
         k == inv[r].i + 1
         f == [Complete(inv[r], "returned", FALSE, rain)
                 EXCEPT !.maxRain = RainSoFar(@, rain), !.i = k,
                        !.allFailed = @ /\ RainCheckFailed(resp)]
         styled == IF rain > 100 THEN SetStyle(mapMarkers, <<r, k>>, "#d32f2f")
                   ELSE IF rain > 50 THEN SetStyle(mapMarkers, <<r, k>>, "#f57c00")
                   ELSE mapMarkers
     IN LoopFrom(r, f, styled, samplesMarkersRef)
  /\ UNCHANGED <<uiVars, mapReady, routeGeo, routeLayerRef, effectDue,
                 effectCallbacks, nRuns, nEvents, fnVars>>

-----------------------------------------------------------------------------
(* Effects and user events *)

\* App.jsx:21-51: the first effect's import("leaflet") settles; the map is
\* created, the click handler registered, setMapReady(true)
MapInit ==
  /\ Quiescent
  /\ ~mapReady
  /\ mapReady' = TRUE
  /\ effectDue' = TRUE
  /\ UNCHANGED <<uiVars, status, routeGeo, checking, routeLayerRef, samplesMarkersRef,
                 mapMarkers, effectCallbacks, inv, nRuns, nEvents, fnVars>>

MapClickResetsOther(choice, lat, lon) ==
  /\ Quiescent
  /\ mapReady
  /\ nEvents < MaxEvents
  /\ LatLon(lat, lon) \in ClickTargets(IF choice THEN origin ELSE dest)
  /\ nEvents' = nEvents + 1
  /\ IF choice
     THEN /\ origin' = LatLon(lat, lon)
          /\ originAddr' = FormatLatLon(lat, lon)
          /\ dest' = Null
          /\ UNCHANGED destAddr
     ELSE /\ dest' = LatLon(lat, lon)
          /\ destAddr' = FormatLatLon(lat, lon)
          /\ origin' = Null
          /\ UNCHANGED originAddr
  /\ UNCHANGED <<mapReady, status, routeGeo, checking, routeLayerRef, samplesMarkersRef,
                 mapMarkers, effectDue, effectCallbacks, inv, nRuns, fnVars>>

\* App.jsx:31-46: a click on the map; choice is the answer to window.confirm
MapClick(choice, lat, lon) ==
  /\ Quiescent
  /\ mapReady
  /\ nEvents < MaxEvents
  /\ LatLon(lat, lon) \in ClickTargets(IF choice THEN origin ELSE dest)
  /\ nEvents' = nEvents + 1
  /\ IF choice
     THEN /\ origin' = LatLon(lat, lon)
          /\ originAddr' = FormatLatLon(lat, lon)
          /\ UNCHANGED <<dest, destAddr>>
     ELSE /\ dest' = LatLon(lat, lon)
          /\ destAddr' = FormatLatLon(lat, lon)
          /\ UNCHANGED <<origin, originAddr>>
  /\ UNCHANGED <<mapReady, status, routeGeo, checking, routeLayerRef, samplesMarkersRef,
                 mapMarkers, effectDue, effectCallbacks, inv, nRuns, fnVars>>

\* App.jsx:199: onChange of the origin input
EditOriginAddr(t) ==
  /\ Quiescent
  /\ nEvents < MaxEvents
  /\ nEvents' = nEvents + 1
  /\ originAddr' = Typed(t)
  /\ UNCHANGED <<destAddr, origin, dest, mapReady, status, routeGeo, checking,
                 routeLayerRef, samplesMarkersRef, mapMarkers, effectDue,
                 effectCallbacks, inv, nRuns, fnVars>>

\* App.jsx:205: onChange of the destination input
EditDestAddr(t) ==
  /\ Quiescent
  /\ nEvents < MaxEvents
  /\ nEvents' = nEvents + 1
  /\ destAddr' = Typed(t)
  /\ UNCHANGED <<originAddr, origin, dest, mapReady, status, routeGeo, checking,
                 routeLayerRef, samplesMarkersRef, mapMarkers, effectDue,
                 effectCallbacks, inv, nRuns, fnVars>>

\* App.jsx:53-55, 67: the effect runs after a render in which routeGeo or
\* mapReady changed, and starts its import("leaflet")
RunEffect ==
  /\ Quiescent
  /\ effectDue
  /\ effectDue' = FALSE
  /\ effectCallbacks' = IF ~mapReady \/ routeGeo = NoRouteGeo
                        THEN effectCallbacks
                        ELSE Append(effectCallbacks, routeGeo)
  /\ UNCHANGED <<uiVars, mapReady, status, routeGeo, checking, routeLayerRef,
                 samplesMarkersRef, mapMarkers, inv, nRuns, nEvents, fnVars>>

\* routeGeo.coordinates.map((c) => [c[1], c[0]])
toLatLngs(coords) == [k \in 1..Len(coords) |-> <<coords[k][2], coords[k][1]>>]

\* App.jsx:56-65: the effect's import("leaflet") settles; the old polyline and
\* all sample markers are removed, the list emptied, the new polyline drawn
EffectCallback ==
  /\ Quiescent
  /\ effectCallbacks # <<>>
  /\ LET geo == Head(effectCallbacks)
     IN routeLayerRef' = [run |-> geo.run, latlngs |-> toLatLngs(geo.geometry.coordinates)]
  /\ mapMarkers' = RemoveAll(mapMarkers, samplesMarkersRef)
  /\ samplesMarkersRef' = <<>>
  /\ effectCallbacks' = Tail(effectCallbacks)
  /\ UNCHANGED <<uiVars, mapReady, status, routeGeo, checking, effectDue, inv,
                 nRuns, nEvents, fnVars>>

-----------------------------------------------------------------------------
(* The application *)

AppInit ==
  /\ originAddr = Typed("")
  /\ destAddr = Typed("")
  /\ origin = Null
  /\ dest = Null
  /\ mapReady = FALSE
  /\ status = StatusText("")
  /\ routeGeo = NoRouteGeo
  /\ checking = FALSE
  /\ routeLayerRef = NoLayer
  /\ samplesMarkersRef = <<>>
  /\ mapMarkers = {}
  /\ effectDue = FALSE
  /\ effectCallbacks = <<>>
  /\ inv = [r \in RunIds |-> IdleFrame]
  /\ nRuns = 0
  /\ nEvents = 0

\* no per-sample results, and the accumulators as lines 164-165 initialise them
NoResults == [results |-> <<>>, order |-> <<>>]

Accumulators == [k |-> 0, waterDetected |-> FALSE, maxRain |-> 0]

NoAggregate == [done |-> FALSE, inPathOrder |-> Accumulators, inOrder |-> Accumulators,
                risk |-> "", riskInOrder |-> ""]

NoCall ==
  /\ sampleIn = NoGeometry
  /\ sampleOut = [done |-> FALSE, value |-> <<>>]
  /\ classIn = [water |-> FALSE, rain |-> 0]
  /\ classOut = [done |-> FALSE, value |-> ""]
  /\ aggIn = NoResults
  /\ aggOut = NoAggregate

Init == AppInit /\ NoCall

Next ==
  \/ \E r \in RunIds : StartRun(r)
  \/ \E r \in RunIds : ResolveFrom(r)
  \/ \E r \in RunIds, resp \in GeoResponses : GeocodeFromReturn(r, resp)
  \/ \E r \in RunIds : ResolveTo(r)
  \/ \E r \in RunIds, resp \in GeoResponses : GeocodeToReturn(r, resp)
  \/ \E r \in RunIds : CheckLocations(r)
  \/ \E r \in RunIds, resp \in RouteResponses : GetRouteReturn(r, resp)
  \/ \E r \in RunIds : LeafletReturn(r)
  \/ \E r \in RunIds, resp \in WaterResponses : WaterReturn(r, resp)
  \/ \E r \in RunIds, resp \in RainResponses : RainReturn(r, resp)
  \/ MapInit
  \/ \E choice \in BOOLEAN, c \in ClickCoords : MapClick(choice, c.lat, c.lon)
  \/ \E t \in Texts : EditOriginAddr(t)
  \/ \E t \in Texts : EditDestAddr(t)
  \/ RunEffect
  \/ EffectCallback

Spec == Init /\ [][Next]_vars

\* the next step of an invocation: its synchronous code runs on, or the await
\* it is suspended at settles
RunStep ==
  \E r \in RunIds :
    \/ ResolveFrom(r)
    \/ ResolveTo(r)
    \/ CheckLocations(r)
    \/ LeafletReturn(r)
    \/ \E resp \in GeoResponses : GeocodeFromReturn(r, resp) \/ GeocodeToReturn(r, resp)
    \/ \E resp \in RouteResponses : GetRouteReturn(r, resp)
    \/ \E resp \in WaterResponses : WaterReturn(r, resp)
    \/ \E resp \in RainResponses : RainReturn(r, resp)

\* the application without the address inputs, whose text only travels into the
\* geocoding query
RunNext ==
  \/ \E r \in RunIds : StartRun(r)
  \/ RunStep
  \/ MapInit
  \/ \E choice \in BOOLEAN, c \in ClickCoords : MapClick(choice, c.lat, c.lon)
  \/ RunEffect
  \/ EffectCallback

\* every request and import an invocation awaits settles in the end
FairSpec == Init /\ [][RunNext]_vars /\ WF_vars(RunStep)

-----------------------------------------------------------------------------
(* The pure helpers called on their own *)

\* paths of up to MaxPathLen distinct vertices, the empty path included
SamplePaths == {GeoJSON(MkPath(n, s)) : n \in 0..MaxPathLen, s \in {0, 50}}

SamplerInit ==
  /\ AppInit
  /\ sampleIn \in SamplePaths
  /\ sampleOut = [done |-> FALSE, value |-> <<>>]
  /\ classIn = [water |-> FALSE, rain |-> 0]
  /\ classOut = [done |-> FALSE, value |-> ""]
  /\ aggIn = NoResults
  /\ aggOut = NoAggregate

\* const samples = sampleLineString(geometry)   App.jsx:158
CallSampleLineString ==
  /\ ~sampleOut.done
  /\ sampleOut' = [done |-> TRUE, value |-> sampleLineString(sampleIn)]
  /\ UNCHANGED <<appVars, sampleIn, classIn, classOut, aggIn, aggOut>>

SamplerSpec == SamplerInit /\ [][CallSampleLineString]_vars

ClassifyInit ==
  /\ AppInit
  /\ sampleIn = NoGeometry
  /\ sampleOut = [done |-> FALSE, value |-> <<>>]
  /\ classIn \in [water : BOOLEAN, rain : 0..MaxRain]
  /\ classOut = [done |-> FALSE, value |-> ""]
  /\ aggIn = NoResults
  /\ aggOut = NoAggregate

\* const risk = riskLevel(waterDetected, maxRain)   App.jsx:181
CallRiskLevel ==
  /\ ~classOut.done
  /\ classOut' = [done |-> TRUE, value |-> riskLevel(classIn.water, classIn.rain)]
  /\ UNCHANGED <<appVars, sampleIn, sampleOut, classIn, aggIn, aggOut>>

ClassifySpec == ClassifyInit /\ [][CallRiskLevel]_vars

\* what the two checks of one sample can give: hasWater, and a rain sum below,
\* between and above the thresholds of riskLevel
SampleResults == [water : BOOLEAN, rain : {0, 60, 115}]

ResultLists == UNION {[1..n -> SampleResults] : n \in 0..MaxSamples}

\* the orders in which n samples can be visited
VisitOrders(n) == {p \in [1..n -> 1..n] : \A a, b \in 1..n : p[a] = p[b] => a = b}

AggregateInit ==
  /\ AppInit
  /\ sampleIn = NoGeometry
  /\ sampleOut = [done |-> FALSE, value |-> <<>>]
  /\ classIn = [water |-> FALSE, rain |-> 0]
  /\ classOut = [done |-> FALSE, value |-> ""]
  /\ \E s \in ResultLists : \E p \in VisitOrders(Len(s)) : aggIn = [results |-> s, order |-> p]
  /\ aggOut = NoAggregate

\* one pass of the loop body's accumulator updates, App.jsx:171-176
Visit(acc, res) ==
  [k |-> acc.k + 1,
   waterDetected |-> WaterSoFar(acc.waterDetected, res.water),
   maxRain |-> RainSoFar(acc.maxRain, res.rain)]

\* the next sample is visited, in path order and in the other order
VisitSample ==
  /\ ~aggOut.done
  /\ aggOut.inPathOrder.k < Len(aggIn.results)
  /\ LET k == aggOut.inPathOrder.k + 1
     IN aggOut' = [aggOut EXCEPT
                     !.inPathOrder = Visit(@, aggIn.results[k]),
                     !.inOrder = Visit(@, aggIn.results[aggIn.order[k]])]
  /\ UNCHANGED <<appVars, sampleIn, sampleOut, classIn, classOut, aggIn>>

\* const risk = riskLevel(waterDetected, maxRain) after the loop   App.jsx:181
PublishAggregate ==
  /\ ~aggOut.done
  /\ aggOut.inPathOrder.k = Len(aggIn.results)
  /\ aggOut' = [aggOut EXCEPT
                  !.done = TRUE,
                  !.risk = riskLevel(aggOut.inPathOrder.waterDetected, aggOut.inPathOrder.maxRain),
                  !.riskInOrder = riskLevel(aggOut.inOrder.waterDetected, aggOut.inOrder.maxRain)]
  /\ UNCHANGED <<appVars, sampleIn, sampleOut, classIn, classOut, aggIn>>

AggregateSpec == AggregateInit /\ [][VisitSample \/ PublishAggregate]_vars

-----------------------------------------------------------------------------
(* Properties *)

CallsOf(r, fns) == {k \in 1..Len(inv[r].calls) : inv[r].calls[k].fn \in fns}

IsSampleCall(c) == c.fn \in {"water", "rain"}

\* the per-sample checks of run r, in the order issued
SampleCalls(r) == SelectSeq(inv[r].calls, IsSampleCall)

SetMax(S) == CHOOSE x \in S : \A y \in S : y <= x

\* C1: in a run that got as far as the per-sample checks (both endpoints
\* resolved, route obtained), no failing check moves the run to Error: once the
\* handler has returned the status is the risk line, and if every check failed
\* it reads Risk Level Low, water No, rain 0.0.
C1_SoftFailuresNeverAbort ==
  \A r \in RunIds :
    (inv[r].pc = "returned" /\ CallsOf(r, {"water", "rain"}) # {}) =>
      /\ status.text = "Risk Level"
      /\ inv[r].allFailed =>
           (status.risk = "Low" /\ status.water = "No" /\ status.rain = <<0, 0>>)

\* the geocoding of the destination returned no candidate
DestNotFound(r) ==
  /\ inv[r].to = Null
  /\ \E k \in CallsOf(r, {"geocode"}) :
       inv[r].calls[k].idx = 2 /\ inv[r].calls[k].state = "returned"

\* C2: when the destination is not found, the run issues no route, water or
\* rain request, and when its handler has returned the status is the error
\* "Invalid locations" with the in-flight flag cleared.
C2_DestNotFoundEndsInError ==
  \A r \in RunIds :
    DestNotFound(r) =>
      /\ CallsOf(r, {"route", "water", "rain"}) = {}
      /\ inv[r].pc \in {"checkLocations", "returned"}
      /\ inv[r].pc = "returned" => (status = ErrorStatus("Invalid locations") /\ ~checking)

C2_Witness ==
  \E r \in RunIds :
    /\ DestNotFound(r)
    /\ inv[r].from # Null
    /\ inv[r].pc = "returned"
    /\ status.text = "Error"

\* call k of run r is a hard failure: a geocode or route request that threw, or
\* a geocode request that found nothing
HardFailure(r, k) ==
  LET c == inv[r].calls[k]
  IN /\ c.fn \in {"geocode", "route"}
     /\ \/ c.state = "threw"
        \/ /\ c.fn = "geocode"
           /\ c.state = "returned"
           /\ IF c.idx = 1 THEN inv[r].from = Null ELSE inv[r].to = Null

\* C3: a hard failure is the last request its run issues, and when the handler
\* has returned the status is an error.
C3_HardFailureAbortsImmediately ==
  \A r \in RunIds :
    \A k \in 1..Len(inv[r].calls) :
      HardFailure(r, k) =>
        /\ k = Len(inv[r].calls)
        /\ inv[r].pc = "returned" => status.text = "Error"

\* C4: riskLevel yields one of three levels: High for water with rain above
\* 10 mm, otherwise Medium for rain above 5 mm, Low for no water with rain up to
\* 5 mm; riskLevel(true, 11) = High, (false, 6) = Medium, (true, 3) = Medium,
\* (false, 0) = Low.
C4_RiskLevelTable ==
  classOut.done =>
    LET water == classIn.water
        rain == classIn.rain
        level == classOut.value
    IN /\ level \in {"High", "Medium", "Low"}
       /\ (water /\ rain > 100) => level = "High"
       /\ (~(water /\ rain > 100) /\ rain > 50) => level = "Medium"
       /\ (~water /\ rain <= 50) => level = "Low"
       /\ (water /\ rain = 110) => level = "High"
       /\ (~water /\ rain = 60) => level = "Medium"
       /\ (water /\ rain = 30) => level = "Medium"
       /\ (~water /\ rain = 0) => level = "Low"

C4_Witness ==
  /\ classOut.done
  /\ classIn = [water |-> TRUE, rain |-> 30]
  /\ classOut.value = "Medium"

\* C5: at most one invocation of handleCheckRoute is in progress, one is in
\* progress exactly while checking is set, and the RunState is non-terminal
\* only while one is.
C5_NonReentrant ==
  /\ NumActive <= 1
  /\ checking <=> NumActive = 1
  /\ RunState \in {"ResolvingLocations", "FetchingRoute", "Sampling"} => NumActive = 1

C5_Witness ==
  /\ NumActive = 1
  /\ RunState = "Sampling"
  /\ nRuns < MaxRuns

\* the per-sample checks issued and not yet settled, over all runs
ChecksInFlight ==
  UNION {{<<r, k>> : k \in {j \in CallsOf(r, {"water", "rain"}) :
                                inv[r].calls[j].state = "pending"}} : r \in RunIds}

\* C6: the per-sample checks of a run are water 1, rain 1, water 2, rain 2, ...
\* each for the sample of its index in path order, each issued only after the
\* one before it has completed; at most one check is in flight at any moment.
C6_SequentialSampling ==
  /\ \A r \in RunIds :
       LET s == SampleCalls(r)
       IN \A j \in 1..Len(s) :
            /\ s[j].fn = (IF j % 2 = 1 THEN "water" ELSE "rain")
            /\ s[j].idx = (j + 1) \div 2
            /\ s[j].idx <= Len(inv[r].samples)
            /\ s[j].arg = inv[r].samples[s[j].idx]
            /\ j < Len(s) => s[j].state = "returned"
  /\ Cardinality(ChecksInFlight) <= 1

C6_Witness ==
  \E r \in RunIds :
    /\ Len(inv[r].samples) = 2
    /\ inv[r].pc = "rain"
    /\ inv[r].i = 1

\* C7: when the risk line is published, every sample of the run has had its
\* water and its rain check completed, the line's water is the OR of the water
\* results, its rain the maximum of 0 and the rain results to one decimal, and
\* its level riskLevel of the two.
C7_PublishedAggregate ==
  status.text = "Risk Level" =>
    LET f == inv[nRuns]
        s == SampleCalls(nRuns)
        anyWater == \E j \in 1..Len(s) : s[j].fn = "water" /\ s[j].water
        maxRain == SetMax({0} \cup {s[j].rain : j \in {i \in 1..Len(s) : s[i].fn = "rain"}})
    IN /\ f.pc = "returned"
       /\ Len(s) = 2 * Len(f.samples)
       /\ \A j \in 1..Len(s) : s[j].state = "returned"
       /\ s[Len(s)].fn = "rain" /\ s[Len(s)].idx = Len(f.samples)
       /\ status.water = (IF anyWater THEN "Yes" ELSE "No")
       /\ status.rain = toFixed1(maxRain)
       /\ status.risk = riskLevel(anyWater, maxRain)

C7_Witness ==
  /\ status.text = "Risk Level"
  /\ status.risk = "High"
  /\ LET s == SampleCalls(nRuns)
     IN /\ Len(s) = 4
        /\ s[1].water /\ ~s[3].water
        /\ s[2].rain = 115 /\ s[4].rain = 0

\* C8: sampleLineString returns exactly the vertices at indices 0, 10, 20, ...
\* in order: never more points than vertices, and for a non-empty path the
\* first vertex first, also when the path is shorter than the stride.
C8_EveryTenthVertex ==
  sampleOut.done =>
    LET coords == sampleIn.coordinates
        out == sampleOut.value
    IN /\ Len(out) = (Len(coords) + 9) \div 10
       /\ Len(out) <= Len(coords)
       /\ \A k \in 1..Len(out) :
            out[k] = [lon |-> coords[10 * (k - 1) + 1][1], lat |-> coords[10 * (k - 1) + 1][2]]
       /\ Len(coords) > 0 =>
            (Len(out) >= 1 /\ out[1] = [lon |-> coords[1][1], lat |-> coords[1][2]])

C8_Witness ==
  /\ sampleOut.done
  /\ Len(sampleIn.coordinates) = 21
  /\ Len(sampleOut.value) = 3

\* C9: an endpoint pinned when the run was requested is used unchanged and is
\* never geocoded in that run, whatever its address text.
C9_PinnedTakesPrecedence ==
  \A r \in RunIds :
    LET f == inv[r]
    IN /\ f.origin # Null =>
            /\ \A k \in CallsOf(r, {"geocode"}) : f.calls[k].idx # 1
            /\ f.pc \notin {"idle", "resolveFrom"} => f.from = f.origin
       /\ f.dest # Null =>
            /\ \A k \in CallsOf(r, {"geocode"}) : f.calls[k].idx # 2
            /\ f.pc \in {"checkLocations", "route", "leaflet", "water", "rain"} => f.to = f.dest
            /\ f.to # Null => f.to = f.dest
       /\ \A k \in CallsOf(r, {"route"}) :
            /\ f.origin # Null => f.calls[k].arg[1] = f.origin
            /\ f.dest # Null => f.calls[k].arg[2] = f.dest

C9_Witness ==
  /\ nRuns = 2
  /\ inv[2].origin # Null
  /\ inv[2].originAddr = Typed("a")
  /\ \E k \in CallsOf(2, {"route"}) : inv[2].calls[k].arg[1] = inv[2].origin

\* one step of the RunState
RunStateStep ==
  LET a == RunState
      b == RunState'
  IN \/ a = b
     \/ a \in {"Idle", "Done", "Error"} /\ b = "ResolvingLocations" /\ nRuns' = nRuns + 1
     \/ a = "ResolvingLocations" /\ b \in {"FetchingRoute", "Error"}
     \/ a = "FetchingRoute" /\ b \in {"Sampling", "Error"}
     \/ a = "Sampling" /\ b \in {"Done", "Error"}

\* a run whose route request threw
RouteFailed(r) ==
  /\ inv[r].calls # <<>>
  /\ inv[r].calls[Len(inv[r].calls)].fn = "route"
  /\ inv[r].calls[Len(inv[r].calls)].state = "threw"

MapWritten == mapMarkers' # mapMarkers \/ routeLayerRef' # routeLayerRef

\* C11: the map is written only while the current run's RunState is Sampling or
\* Done (never in ResolvingLocations, FetchingRoute, Error or Idle), and what is
\* written belongs to the current run: the writes of two runs never interleave.
C11_MapWrittenOnlyWhileSamplingOrDone ==
  [][MapWritten =>
       /\ RunState \in {"Sampling", "Done"}
       /\ routeLayerRef' # routeLayerRef => routeLayerRef'.run = nRuns]_vars

\* C12: once a later run has ended, in Done or in Error, routeGeo, the drawn
\* polyline and the sample-marker list hold nothing an earlier run produced.
C12_NothingOfAnEarlierRun ==
  (nRuns >= 2 /\ RunState \in {"Done", "Error"}) =>
    /\ routeGeo.run \in {0, nRuns}
    /\ routeLayerRef.run \in {0, nRuns}
    /\ \A k \in 1..Len(samplesMarkersRef) : samplesMarkersRef[k][1] = nRuns

\* C13: whatever the per-sample results and in whatever order the samples are
\* visited, the loop ends with the same waterDetected and the same maxRain as
\* in path order, and so the same risk level is published.
C13_AggregationOrderIndependent ==
  aggOut.done =>
    /\ aggOut.inOrder.waterDetected = aggOut.inPathOrder.waterDetected
    /\ aggOut.inOrder.maxRain = aggOut.inPathOrder.maxRain
    /\ aggOut.riskInOrder = aggOut.risk

C13_Witness ==
  /\ aggOut.done
  /\ Len(aggIn.results) = 3
  /\ aggIn.order = <<3, 1, 2>>
  /\ aggIn.results[1].water /\ ~aggIn.results[2].water /\ ~aggIn.results[3].water
  /\ aggIn.results[1].rain < aggIn.results[3].rain
  /\ aggIn.results[3].rain < aggIn.results[2].rain
  /\ aggOut.risk = "High"

\* run r waits for a provider request that has not settled
PendingCall(r) ==
  /\ inv[r].calls # <<>>
  /\ inv[r].calls[Len(inv[r].calls)].state = "pending"

NonTerminal == {"ResolvingLocations", "FetchingRoute", "Sampling"}

\* C14: if every awaited call settles, a started run ends in Done or Error, and
\* there checking is false and Check Route can be clicked again; checking is
\* true exactly while the RunState is non-terminal; as long as a provider
\* request has not settled its run stays where it is, checking still true.
C14_RunsTerminate ==
  /\ checking ~> (~checking /\ RunState \in {"Done", "Error"} /\ ButtonEnabled)
  /\ [](checking <=> RunState \in NonTerminal)
  /\ [](\A r \in RunIds : PendingCall(r) => (checking /\ Active(r)))
  /\ [][\A r \in RunIds :
          (PendingCall(r) /\ PendingCall(r)' /\ Len(inv'[r].calls) = Len(inv[r].calls))
            => (inv'[r] = inv[r] /\ checking' /\ RunState' = RunState)]_vars

C14_Witness ==
  /\ nRuns = 2
  /\ ~checking
  /\ inv[2].pc = "returned"
  /\ RunState = "Done"

\* the requests of run r for function fn with index idx, as positions in its record
Attempts(r, fn, idx) == {k \in CallsOf(r, {fn}) : inv[r].calls[k].idx = idx}

\* C15: a run issues each request once and never again: at most one geocoding
\* query per endpoint and none for a pinned one, at most one route request, per
\* sample at most one water query and one precipitation query, the latter only
\* after the former has returned, and exactly one of each when the run is Done;
\* a request that threw is the last request of its run.
C15_SingleAttempt ==
  \A r \in RunIds :
    LET f == inv[r]
    IN /\ Cardinality(Attempts(r, "geocode", 1)) <= (IF f.origin = Null THEN 1 ELSE 0)
       /\ Cardinality(Attempts(r, "geocode", 2)) <= (IF f.dest = Null THEN 1 ELSE 0)
       /\ Cardinality(CallsOf(r, {"route"})) <= 1
       /\ \A k \in CallsOf(r, {"geocode", "route", "water", "rain"}) :
            /\ f.calls[k].idx \in 1..(IF IsSampleCall(f.calls[k]) THEN Len(f.samples) ELSE 2)
            /\ k < Len(f.calls) => f.calls[k].state = "returned"
            /\ f.calls[k].state = "threw" => f.pc = "returned"
       /\ \A n \in 1..Len(f.samples) :
            /\ Cardinality(Attempts(r, "water", n)) <= 1
            /\ Cardinality(Attempts(r, "rain", n)) <= 1
            /\ \A k \in Attempts(r, "rain", n) : \E j \in Attempts(r, "water", n) : j = k - 1
            /\ (r = nRuns /\ RunState = "Done") =>
                 /\ Cardinality(Attempts(r, "water", n)) = 1
                 /\ Cardinality(Attempts(r, "rain", n)) = 1

C15_Witness ==
  /\ RunState = "Done"
  /\ Len(inv[nRuns].samples) = 2
  /\ Len(inv[nRuns].calls) = 7
  /\ \E k \in Attempts(nRuns, "rain", 1) : inv[nRuns].calls[k].rain = 0
  /\ inv[nRuns].allFailed

\* C16: when a run is Done the sample-marker list holds one marker per sample
\* of that run, in path order, and each of them is on the map.
C16_MarkersCompleteAtDone ==
  RunState = "Done" =>
    LET r == nRuns
        n == Len(inv[r].samples)
    IN /\ samplesMarkersRef = [k \in 1..n |-> <<r, k>>]
       /\ \A k \in 1..n : \E m \in mapMarkers : m.id = <<r, k>>

\* the endpoints an invocation works from
Endpoints(f) == <<f.origin, f.dest, f.originAddr, f.destAddr>>

\* run r has resolved its origin, resp. its destination
PastResolveFrom(r) ==
  inv[r].pc \in {"resolveTo", "geoTo", "checkLocations", "route", "leaflet", "water", "rain"}

PastResolveTo(r) == inv[r].pc \in {"checkLocations", "route", "leaflet", "water", "rain"}

\* C17: a run works from the pins and address texts of the moment it was
\* requested: it takes them over when it starts and keeps them until it ends; a
\* click or an edit changes neither the run, the route nor the status; every
\* geocoding query, resolved endpoint and route request of the run comes from
\* the endpoints it started with, whatever the pins and texts are by then.
C17_EndpointsFixedAtRequest ==
  /\ [][\A r \in RunIds :
          /\ (~Active(r) /\ Active(r)') =>
               Endpoints(inv'[r]) = <<origin, dest, originAddr, destAddr>>
          /\ Active(r) => Endpoints(inv'[r]) = Endpoints(inv[r])]_vars
  /\ [][uiVars' # uiVars => (inv' = inv /\ routeGeo' = routeGeo /\ status' = status)]_vars
  /\ [](\A r \in RunIds :
          LET f == inv[r]
          IN /\ \A k \in Attempts(r, "geocode", 1) : f.calls[k].arg = f.originAddr
             /\ \A k \in Attempts(r, "geocode", 2) : f.calls[k].arg = f.destAddr
             /\ PastResolveFrom(r) =>
                  IF f.origin # Null
                  THEN f.from = f.origin /\ Attempts(r, "geocode", 1) = {}
                  ELSE Attempts(r, "geocode", 1) # {}
             /\ PastResolveTo(r) =>
                  IF f.dest # Null
                  THEN f.to = f.dest /\ Attempts(r, "geocode", 2) = {}
                  ELSE Attempts(r, "geocode", 2) # {}
             /\ \A k \in CallsOf(r, {"route"}) : f.calls[k].arg = <<f.from, f.to>>)

C17_Witness ==
  \E r \in RunIds :
    /\ inv[r].pc = "route"
    /\ inv[r].origin \in ClickCoords
    /\ origin \in ClickCoords
    /\ origin # inv[r].origin
    /\ originAddr # inv[r].originAddr
    /\ \E k \in CallsOf(r, {"route"}) : inv[r].calls[k].arg[1] = inv[r].origin

\* this step of run r issues a geocoding query for endpoint idx
IssuesGeocode(r, idx) ==
  /\ Len(inv'[r].calls) = Len(inv[r].calls) + 1
  /\ inv'[r].calls[Len(inv'[r].calls)].fn = "geocode"
  /\ inv'[r].calls[Len(inv'[r].calls)].idx = idx

\* a pin is kept, and only a click on the map changes it
PinsKept ==
  /\ origin # Null => origin' # Null
  /\ dest # Null => dest' # Null
  /\ origin' # origin =>
       /\ origin' \in ClickCoords
       /\ originAddr' = FormatLatLon(origin'.lat, origin'.lon)
       /\ dest' = dest /\ inv' = inv
  /\ dest' # dest =>
       /\ dest' \in ClickCoords
       /\ destAddr' = FormatLatLon(dest'.lat, dest'.lon)
       /\ origin' = origin /\ inv' = inv

\* C18 as stated: a pin is never cleared and only a click replaces it, and
\* while an endpoint is pinned no geocoding query is issued for it.
C18_NoGeocodingOncePinned ==
  /\ [][PinsKept]_vars
  /\ [][\A r \in RunIds :
          /\ IssuesGeocode(r, 1) => origin = Null
          /\ IssuesGeocode(r, 2) => dest = Null]_vars

\* C18, amended: a pin is never cleared and only a click replaces it; a run
\* requested while an endpoint is pinned starts with that pin, and a geocoding
\* query for an endpoint is issued only by a run that started without a pin
\* for it, which a run in flight at the time of the click still is.
C18_NoGeocodingByLaterRuns ==
  /\ [][PinsKept]_vars
  /\ [][\A r \in RunIds :
          /\ (~Active(r) /\ Active(r)' /\ origin # Null) => inv'[r].origin = origin
          /\ (~Active(r) /\ Active(r)' /\ dest # Null) => inv'[r].dest = dest
          /\ IssuesGeocode(r, 1) => inv[r].origin = Null
          /\ IssuesGeocode(r, 2) => inv[r].dest = Null]_vars

C18_Witness ==
  \E r \in RunIds :
    /\ inv[r].pc = "geoTo"
    /\ inv[r].dest = Null
    /\ dest \in ClickCoords
    /\ destAddr # inv[r].destAddr
    /\ PendingCall(r)

====
